---- MODULE Spec2Model ----
(***************************************************************************)
(* Scoring core of the travel companion backend:                           *)
(*   backend/app/services/place_scorer.py  (PlaceScorer)                   *)
(*   backend/app/workers/tasks.py          (update_gem_scores)             *)
(*   backend/app/database.py               (get_db_session)                *)
(*   backend/app/models.py                 (Place, Mention, GemScore)      *)
(* the ingestion side:                                                     *)
(*   backend/app/services/scraper.py       (RedditScraper)                 *)
(* and the response cache of the API:                                      *)
(*   backend/app/core/cache.py             (cache_key_wrapper)             *)
(*                                                                         *)
(* Python floats are modelled as exact rationals <<n, d>> with d > 0 in    *)
(* lowest terms; datetimes are integer ticks, TicksPerDay ticks to a       *)
(* calendar day.                                                           *)
(***************************************************************************)
EXTENDS Integers, Sequences, FiniteSets, TLC

VARIABLES
    clock,      \* datetime.utcnow(), in ticks
    places,     \* table places: place id -> row
    mentions,   \* table mentions: set of rows (committed)
    gem_scores, \* table gem_scores: set of rows (committed)
    session,    \* per task invocation: the SQLAlchemy session and the position in update_all_scores
    result,     \* per task invocation: the value update_gem_scores returned last
    lastRun,    \* history: the task invocation that returned last
    prevRun,    \* history: the one that returned before it
    adds,       \* number of mention insertions so far
    runs,       \* number of task invocations started so far
    lastCall,   \* history: the last direct call of a scoring function
    prevCall,   \* history: the call before it
    cache       \* core/cache.py: redis_client, the keys behind it, the calls begun

vars == <<clock, places, mentions, gem_scores, session, result, lastRun, prevRun,
          adds, runs, lastCall, prevCall, cache>>

-----------------------------------------------------------------------------
(* Float arithmetic, as exact rationals.                                   *)

Abs(x) == IF x < 0 THEN -x ELSE x

RECURSIVE GCD(_, _)
GCD(a, b) == IF b = 0 THEN a ELSE GCD(b, a % b)

\* the rational n/d (d # 0) in lowest terms with a positive denominator
Rat(n, d) ==
    LET s == IF d < 0 THEN -1 ELSE 1
        g == GCD(Abs(n), Abs(d))
    IN  <<(s * n) \div g, (s * d) \div g>>

Int2Rat(i) == <<i, 1>>
RAdd(a, b) == Rat(a[1] * b[2] + b[1] * a[2], a[2] * b[2])
RSub(a, b) == Rat(a[1] * b[2] - b[1] * a[2], a[2] * b[2])
RMul(a, b) == Rat(a[1] * b[1], a[2] * b[2])
RDiv(a, b) == Rat(a[1] * b[2], a[2] * b[1])
RLe(a, b)  == a[1] * b[2] <= b[1] * a[2]
RLt(a, b)  == a[1] * b[2] < b[1] * a[2]
\* Python's max(a, b) and min(a, b): the first argument wins a tie
RMax(a, b) == IF RLt(a, b) THEN b ELSE a
RMin(a, b) == IF RLt(b, a) THEN b ELSE a

-----------------------------------------------------------------------------
(* PlaceScorer.calculate_gem_score                                         *)

FreshnessDays  == 30
FreshnessBonus == 20
DefaultDaysSinceDiscovery == 30

\* a call's outcome: the value returned, or the exception raised
Returned(v) == [raised |-> FALSE, value |-> v]
Raised      == [raised |-> TRUE, value |-> <<0, 1>>]

\* variant: the tourist ratio itself taken as the base
base_score_ratio(tourist_ratio) == RMul(tourist_ratio, Int2Rat(100))

base_score(tourist_ratio) == RMul(RSub(Int2Rat(1), tourist_ratio), Int2Rat(100))

\* variant: the sentiment used as the multiplier, without the + 1
sentiment_multiplier_no_offset(sentiment) ==
    RMax(Rat(1, 2), RMin(Rat(3, 2), sentiment))

\* variant: the multiplier capped at 1.5 but not floored at 0.5
sentiment_multiplier_no_floor(sentiment) == RMin(Rat(3, 2), RAdd(sentiment, Int2Rat(1)))

sentiment_multiplier(sentiment) ==
    RMax(Rat(1, 2), RMin(Rat(3, 2), RAdd(sentiment, Int2Rat(1))))

\* variant: 30 - days not floored at 0
freshness_bonus_unclamped(days_since_discovery) ==
    RMul(RDiv(Int2Rat(FreshnessDays - days_since_discovery), Int2Rat(FreshnessDays)),
         Int2Rat(FreshnessBonus))

\* variant: the whole bonus whatever the age
freshness_bonus_flat(days_since_discovery) == Int2Rat(FreshnessBonus)

\* variant: a bonus that grows with the age up to day 30
freshness_bonus_rising(days_since_discovery) ==
    RMul(RDiv(RMax(Int2Rat(0), RMin(Int2Rat(FreshnessDays), Int2Rat(days_since_discovery))),
              Int2Rat(FreshnessDays)),
         Int2Rat(FreshnessBonus))

freshness_bonus(days_since_discovery) ==
    RMul(RDiv(RMax(Int2Rat(0), Int2Rat(FreshnessDays - days_since_discovery)),
              Int2Rat(FreshnessDays)),
         Int2Rat(FreshnessBonus))

\* variant: the result floored at 0 but not capped at 100
clamp_score_no_upper(score) == RMax(Int2Rat(0), score)

clamp_score(score) == RMin(Int2Rat(100), RMax(Int2Rat(0), score))

\* variant: the age counted on from the clock
calculate_gem_score_aged(local_mentions, tourist_mentions, sentiment, days_since_discovery) ==
    IF tourist_mentions # 0 /\ local_mentions + tourist_mentions = 0
    THEN Raised
    ELSE LET tourist_ratio ==
                 IF tourist_mentions = 0 THEN Int2Rat(0)
                 ELSE Rat(tourist_mentions, local_mentions + tourist_mentions)
             score == RAdd(RMul(base_score(tourist_ratio), sentiment_multiplier(sentiment)),
                           freshness_bonus(days_since_discovery + clock))
         IN  Returned(clamp_score(score))

\* variant: the division done whatever tourist_mentions is
calculate_gem_score_unguarded(local_mentions, tourist_mentions, sentiment, days_since_discovery) ==
    IF local_mentions + tourist_mentions = 0
    THEN Raised
    ELSE LET tourist_ratio == Rat(tourist_mentions, local_mentions + tourist_mentions)
             score == RAdd(RMul(base_score(tourist_ratio), sentiment_multiplier(sentiment)),
                           freshness_bonus(days_since_discovery))
         IN  Returned(clamp_score(score))

calculate_gem_score(local_mentions, tourist_mentions, sentiment, days_since_discovery) ==
    IF tourist_mentions # 0 /\ local_mentions + tourist_mentions = 0
    THEN Raised   \* ZeroDivisionError at the true division
    ELSE LET tourist_ratio ==
                 IF tourist_mentions = 0 THEN Int2Rat(0)
                 ELSE Rat(tourist_mentions, local_mentions + tourist_mentions)
             score == RAdd(RMul(base_score(tourist_ratio), sentiment_multiplier(sentiment)),
                           freshness_bonus(days_since_discovery))
         IN  Returned(clamp_score(score))

-----------------------------------------------------------------------------
(* Tables (backend/app/models.py) and the clock.                           *)

TicksPerDay == 2
Day(t) == t \div TicksPerDay          \* datetime.date() / func.date()
Days(n) == n * TicksPerDay            \* timedelta(days=n)

MentionWindowDays == 7
AuthWindowDays    == 30

PlaceIds == {"p1", "p2", "p3"}
CityIds  == {1, 2}

\* Text columns: a string is a sequence of characters; NULL is kept apart from ""
Str(chars) == [null |-> FALSE, text |-> chars]
NullStr    == [null |-> TRUE, text |-> <<>>]

UpperCase == <<"A","B","C","D","E","F","G","H","I","J","K","L","M",
               "N","O","P","Q","R","S","T","U","V","W","X","Y","Z">>
LowerCase == <<"a","b","c","d","e","f","g","h","i","j","k","l","m",
               "n","o","p","q","r","s","t","u","v","w","x","y","z">>

\* str.lower(), character by character
LowerOf ==
    [c \in {UpperCase[k] : k \in 1..Len(UpperCase)} |->
        LowerCase[CHOOSE k \in 1..Len(UpperCase) : UpperCase[k] = c]]
    @@ ("A_tilde" :> "a_tilde") @@ ("D_stroke" :> "d_stroke")

lower_char(c) == IF c \in DOMAIN LowerOf THEN LowerOf[c] ELSE c

lower(chars) == [i \in 1..Len(chars) |-> lower_char(chars[i])]

\* needle in hay
Contains(hay, needle) ==
    \E i \in 0..(Len(hay) - Len(needle)) : SubSeq(hay, i + 1, i + Len(needle)) = needle

Landmark == <<"t","o","u","r"," ","e","i","f","f","e","l">>

AddrLandmark == Str(<<"2"," ","T","o","u","r"," ","E","I","F","F","E","L">>)
AddrPlain    == Str(<<"R","u","e"," ","T","o","u","r">>)
AddrEmpty    == Str(<<>>)

\* the catalogue the scoring core reads: two places in city 1, one in city 2
PlaceTable ==
    [p \in PlaceIds |->
        CASE p = "p1" -> [city_id |-> 1, michelin_stars |-> 2, address |-> AddrLandmark]
          [] p = "p2" -> [city_id |-> 1, michelin_stars |-> 0, address |-> NullStr]
          [] p = "p3" -> [city_id |-> 2, michelin_stars |-> 0, address |-> AddrPlain]]

RECURSIVE SumSentiment(_)
SumSentiment(rows) ==
    IF rows = {} THEN Int2Rat(0)
    ELSE LET r == CHOOSE x \in rows : TRUE
         IN  RAdd(r.sentiment_score, SumSentiment(rows \ {r}))

\* variant: the window closed at its old end, a mention exactly 7 days old counted
count_mentions_inclusive(db_mentions, place_id, is_local, since) ==
    Cardinality({m \in db_mentions : /\ m.place_id = place_id
                                     /\ m.is_local_author = is_local
                                     /\ m.mention_date >= since})

\* db.query(models.Mention).filter(place_id, is_local_author, mention_date > since).count()
count_mentions(db_mentions, place_id, is_local, since) ==
    Cardinality({m \in db_mentions : /\ m.place_id = place_id
                                     /\ m.is_local_author = is_local
                                     /\ m.mention_date > since})

\* db.query(func.avg(sentiment_score)).filter(place_id).scalar() or 0
average_sentiment(db_mentions, place_id) ==
    LET rows == {m \in db_mentions : m.place_id = place_id}
    IN  IF rows = {} THEN Int2Rat(0)
        ELSE RDiv(SumSentiment(rows), Int2Rat(Cardinality(rows)))

-----------------------------------------------------------------------------
(* PlaceScorer.calculate_authenticity_score                                *)

MichelinPenalty    == 20
LandmarkPenalty    == 30
LocalBonus         == 20
LocalBonusThreshold == 10

\* variant: the conditional's test dropped, the membership test made on every address
address_truthy_always(address) == TRUE

\* the truth value of place.address: None and "" are false
address_truthy(address) == ~address.null /\ address.text # <<>>

\* place.address.lower() on None raises AttributeError
calculate_authenticity_raises(place) ==
    address_truthy(place.address) /\ place.address.null

has_landmark_address(place) ==
    IF address_truthy(place.address)
    THEN Contains(lower(place.address.text), Landmark)
    ELSE FALSE

\* variant: the threshold included
local_bonus_applies_ge(recent_mentions) == recent_mentions >= LocalBonusThreshold

local_bonus_applies(recent_mentions) == recent_mentions > LocalBonusThreshold

recent_local_mentions(place_id, db_mentions, now) ==
    count_mentions(db_mentions, place_id, TRUE, now - Days(AuthWindowDays))

calculate_authenticity_score(place_id, place, db_mentions, now) ==
    LET s0 == 100
        s1 == IF place.michelin_stars # 0 THEN s0 - MichelinPenalty ELSE s0
        s2 == IF has_landmark_address(place) THEN s1 - LandmarkPenalty ELSE s1
        s3 == IF local_bonus_applies(recent_local_mentions(place_id, db_mentions, now))
              THEN s2 + LocalBonus ELSE s2
    IN  clamp_score(Int2Rat(s3))

-----------------------------------------------------------------------------
(* RedditScraper._extract_places (backend/app/services/scraper.py).        *)
(* A text is a sequence of characters; the characters outside ASCII that   *)
(* the source file holds are named: A_tilde, D_stroke, nbsp, e_acute.      *)

\* \\s
Whitespace  == {" ", "\n", "nbsp"}
\* the characters [^.!?,;] leaves out
Terminators == {".", "!", "?", ",", ";"}
\* [A-Z] under re.IGNORECASE
Letters == {UpperCase[k] : k \in 1..Len(UpperCase)} \cup {LowerCase[k] : k \in 1..Len(LowerCase)}

\* ([A-Z][^.!?,;]{2,30}): the bounds of the repetition
MinTail == 2
MaxTail == 30

\* the keywords of self.place_patterns, as the source file spells them
\* (?:aller A_tilde nbsp|essayer|visiter|recommande)
LeadKeywords ==
    <<<<"a", "l", "l", "e", "r", " ", "A_tilde", "nbsp">>,
      <<"e", "s", "s", "a", "y", "e", "r">>,
      <<"v", "i", "s", "i", "t", "e", "r">>,
      <<"r", "e", "c", "o", "m", "m", "a", "n", "d", "e">>>>

\* (?:est super|est gA_tilde D_stroke nial|est top)
TrailKeywords ==
    <<<<"e", "s", "t", " ", "s", "u", "p", "e", "r">>,
      <<"e", "s", "t", " ", "g", "A_tilde", "D_stroke", "n", "i", "a", "l">>,
      <<"e", "s", "t", " ", "t", "o", "p">>>>

\* (?:restaurant|cafA_tilde D_stroke|bar|bistrot)
VenueKeywords ==
    <<<<"r", "e", "s", "t", "a", "u", "r", "a", "n", "t">>,
      <<"c", "a", "f", "A_tilde", "D_stroke">>,
      <<"b", "a", "r">>,
      <<"b", "i", "s", "t", "r", "o", "t">>>>

\* (?:appelA_tilde D_stroke)?
KwAppele ==
    <<"a", "p", "p", "e", "l", "A_tilde", "D_stroke">>

\* stopwords = {'les', 'des', 'une', 'dans', 'avec', 'pour'}
stopwords ==
    {<<"l", "e", "s">>,
     <<"d", "e", "s">>,
     <<"u", "n", "e">>,
     <<"d", "a", "n", "s">>,
     <<"a", "v", "e", "c">>,
     <<"p", "o", "u", "r">>}

\* the keyword kw stands in text at position i, case ignored
MatchesAt(text, i, kw) ==
    /\ i + Len(kw) - 1 <= Len(text)
    /\ \A k \in 1..Len(kw) : lower_char(text[i + k - 1]) = lower_char(kw[k])

\* the alternatives of kws that stand at position i (at most one does: no keyword
\* of a pattern is a prefix of another)
KeywordsAt(text, i, kws) == {k \in 1..Len(kws) : MatchesAt(text, i, kws[k])}

\* how many characters from position i on are whitespace (\\s+, \\s*, greedy)
RECURSIVE SpaceRun(_, _)
SpaceRun(text, i) ==
    IF i <= Len(text) /\ text[i] \in Whitespace THEN 1 + SpaceRun(text, i + 1) ELSE 0

\* how many characters from position i on are not terminators, up to limit of them
\* ({2,30}, greedy)
RECURSIVE TailRun(_, _, _)
TailRun(text, i, limit) ==
    IF limit > 0 /\ i <= Len(text) /\ text[i] \notin Terminators
    THEN 1 + TailRun(text, i + 1, limit - 1)
    ELSE 0

NoMatch == [ok |-> FALSE, from |-> 0, to |-> 0, end |-> 0]

\* ([A-Z][^.!?,;]{2,30}) at position c with nothing after it in the pattern: the
\* longest tail
CaptureAt(text, c) ==
    IF c <= Len(text) /\ text[c] \in Letters
    THEN LET n == TailRun(text, c + 1, MaxTail)
         IN  IF n >= MinTail THEN [ok |-> TRUE, from |-> c, to |-> c + n, end |-> c + n + 1]
             ELSE NoMatch
    ELSE NoMatch

\* (?:kw1|kw2|...)\\s+([A-Z][^.!?,;]{2,30}) at position i
LeadPatternAt(text, i) ==
    LET ks == KeywordsAt(text, i, LeadKeywords)
    IN  IF ks = {} THEN NoMatch
        ELSE LET kw == LeadKeywords[CHOOSE k \in ks : \A h \in ks : k <= h]
                 j  == i + Len(kw)
                 w  == SpaceRun(text, j)
             IN  IF w >= 1 THEN CaptureAt(text, j + w) ELSE NoMatch

\* ([A-Z][^.!?,;]{2,30})\\s+(?:kw1|kw2|...) at position i: the longest tail that
\* whitespace and a keyword follow
TrailPatternAt(text, i) ==
    IF ~(i <= Len(text) /\ text[i] \in Letters) THEN NoMatch
    ELSE LET run  == TailRun(text, i + 1, MaxTail)
             Followed(n) ==
                 /\ SpaceRun(text, i + n + 1) >= 1
                 /\ KeywordsAt(text, i + n + 1 + SpaceRun(text, i + n + 1),
                               TrailKeywords) # {}
             ns   == {n \in MinTail..run : Followed(n)}
         IN  IF ns = {} THEN NoMatch
             ELSE LET n  == CHOOSE m \in ns : \A h \in ns : h <= m
                      e  == i + n + 1 + SpaceRun(text, i + n + 1)
                      kw == TrailKeywords[CHOOSE k \in KeywordsAt(text, e, TrailKeywords) :
                                             TRUE]
                  IN  [ok |-> TRUE, from |-> i, to |-> i + n, end |-> e + Len(kw)]

\* (?:kw1|kw2|...)\\s+(?:appele)?\\s*([A-Z][^.!?,;]{2,30}) at position i: with the
\* optional word taken if the rest then matches, without it otherwise
VenuePatternAt(text, i) ==
    LET ks == KeywordsAt(text, i, VenueKeywords)
    IN  IF ks = {} THEN NoMatch
        ELSE LET kw == VenueKeywords[CHOOSE k \in ks : \A h \in ks : k <= h]
                 j  == i + Len(kw)
                 w  == SpaceRun(text, j)
                 c0 == j + w
                 c1 == c0 + Len(KwAppele)
                 withWord == IF MatchesAt(text, c0, KwAppele)
                             THEN CaptureAt(text, c1 + SpaceRun(text, c1))
                             ELSE NoMatch
             IN  IF w < 1 THEN NoMatch
                 ELSE IF withWord.ok THEN withWord
                 ELSE CaptureAt(text, c0)

\* self.place_patterns[pattern - 1] at position i
PatternAt(pattern, text, i) ==
    CASE pattern = 1 -> LeadPatternAt(text, i)
      [] pattern = 2 -> TrailPatternAt(text, i)
      [] pattern = 3 -> VenuePatternAt(text, i)

\* re.findall(pattern, text, re.IGNORECASE) from position i on: the captured groups
\* of the matches, leftmost first, no two overlapping
RECURSIVE findall(_, _, _)
findall(pattern, text, i) ==
    LET Least(S) == CHOOSE j \in S : \A h \in S : j <= h
        Emit(m) == <<SubSeq(text, m.from, m.to)>> \o findall(pattern, text, m.end)
        FromStarts(starts) ==
            IF starts = {} THEN <<>>
            ELSE Emit(PatternAt(pattern, text, Least(starts)))
    IN  FromStarts({j \in i..Len(text) : PatternAt(pattern, text, j).ok})

\* str.strip()
strip(chars) ==
    LET inside == {k \in 1..Len(chars) : chars[k] \notin Whitespace}
    IN  IF inside = {} THEN <<>>
        ELSE SubSeq(chars, CHOOSE k \in inside : \A h \in inside : k <= h,
                           CHOOSE k \in inside : \A h \in inside : h <= k)

\* variant: the stopword test without lower()
is_stopword_exact(p) == p \in stopwords

is_stopword(p) == lower(p) \in stopwords

\* the list _extract_places returns, as the set of its elements (list(set(...))
\* fixes no order)
extract_places(text) ==
    LET matches  == findall(1, text, 1) \o findall(2, text, 1) \o findall(3, text, 1)
        stripped == [k \in 1..Len(matches) |-> strip(matches[k])]
        LongEnough(m) == Len(m) > 2
        NotStopword(m) == ~is_stopword(m)
        kept     == SelectSeq(SelectSeq(stripped, LongEnough), NotStopword)
    IN  {kept[k] : k \in 1..Len(kept)}

-----------------------------------------------------------------------------
(* The task update_gem_scores: get_db_session around                       *)
(* PlaceScorer.update_all_scores.                                          *)

Batches  == {1, 2}       \* task invocations that may be in flight
MaxRuns  == 2            \* task invocations started in one behaviour
MaxAdds  == 1            \* mention insertions in one behaviour
MaxClock == 2            \* last tick of the clock

NoPlace == "none"

IdleSession ==
    [pc |-> "idle", city_id |-> 0, todo |-> <<>>, new |-> <<>>, dirty |-> <<>>,
     computed |-> <<>>, t0 |-> 0, snaps0 |-> {}, mentions0 |-> {}]

\* history of the invocation that returned last: the worker slot, where it ended
\* ("list", "place", "commit": the exception was raised there; "done": it
\* committed), the values it computed per place, the tick it started and the
\* day it ended, the tables when it started
NoRun ==
    [valid |-> FALSE, batch |-> 0, city_id |-> 0, stage |-> "none", raised |-> FALSE,
     committed |-> FALSE, faultPlace |-> NoPlace, computed |-> <<>>,
     t0 |-> 0, d1 |-> 0, snaps0 |-> {}, mentions0 |-> {}]

\* history of the invocation before it, kept when it committed
NoPrev == [valid |-> FALSE, city_id |-> 0, t0 |-> 0, d1 |-> 0, mentions0 |-> {}]

NoResult == [status |-> "none", city_id |-> 0]

\* variant: the task without its except branch's return value
update_gem_scores_return_success(raised, city_id) ==
    [status |-> "success", city_id |-> city_id]

\* the dict update_gem_scores returns (the message text is not modelled)
update_gem_scores_return(raised, city_id) ==
    IF raised THEN [status |-> "error", city_id |-> 0]
    ELSE [status |-> "success", city_id |-> city_id]

\* update_all_scores ends at its logger.info call, which alone carries len(places):
\* there is no return statement and the caller gets None, here the empty mapping
update_all_scores_return(places_listed) == <<>>

\* the order in which a scan of the places table returns its rows: by primary key
PlaceOrder == <<"p1", "p2", "p3">>

\* db.query(models.Place).filter(city_id).all()
list_places(city_id) ==
    LET InCity(p) == p \in DOMAIN places /\ places[p].city_id = city_id
    IN  SelectSeq(PlaceOrder, InCity)

\* variant: tourism_saturation as a percentage
place_values_percent(p, db_mentions, now) ==
    LET local_mentions   == count_mentions(db_mentions, p, TRUE, now - Days(MentionWindowDays))
        tourist_mentions == count_mentions(db_mentions, p, FALSE, now - Days(MentionWindowDays))
        avg_sentiment    == average_sentiment(db_mentions, p)
        denom == IF local_mentions + tourist_mentions < 1 THEN 1
                 ELSE local_mentions + tourist_mentions
    IN  [gem |-> calculate_gem_score(local_mentions, tourist_mentions, avg_sentiment,
                                     DefaultDaysSinceDiscovery),
         authenticity_score |-> calculate_authenticity_score(p, places[p], db_mentions, now),
         local_mentions_7d  |-> local_mentions,
         tourism_saturation |-> Rat(100 * tourist_mentions, denom)]

\* days between the first mention of the place and now (30 when it has none)
discovery_age(p, db_mentions, now) ==
    LET dates == {m.mention_date : m \in {x \in db_mentions : x.place_id = p}}
    IN  IF dates = {} THEN DefaultDaysSinceDiscovery
        ELSE Day(now - (CHOOSE d \in dates : \A e \in dates : d <= e))

\* variant: the orchestration passing the discovery age to calculate_gem_score
place_values_with_age(p, db_mentions, now) ==
    LET local_mentions   == count_mentions(db_mentions, p, TRUE, now - Days(MentionWindowDays))
        tourist_mentions == count_mentions(db_mentions, p, FALSE, now - Days(MentionWindowDays))
        avg_sentiment    == average_sentiment(db_mentions, p)
        denom == IF local_mentions + tourist_mentions < 1 THEN 1
                 ELSE local_mentions + tourist_mentions
    IN  [gem |-> calculate_gem_score(local_mentions, tourist_mentions, avg_sentiment,
                                     discovery_age(p, db_mentions, now)),
         authenticity_score |-> calculate_authenticity_score(p, places[p], db_mentions, now),
         local_mentions_7d  |-> local_mentions,
         tourism_saturation |-> Rat(tourist_mentions, denom)]

\* the values update_all_scores computes for one place at time now
place_values(p, db_mentions, now) ==
    LET local_mentions   == count_mentions(db_mentions, p, TRUE, now - Days(MentionWindowDays))
        tourist_mentions == count_mentions(db_mentions, p, FALSE, now - Days(MentionWindowDays))
        avg_sentiment    == average_sentiment(db_mentions, p)
        denom == IF local_mentions + tourist_mentions < 1 THEN 1
                 ELSE local_mentions + tourist_mentions
    IN  [gem |-> calculate_gem_score(local_mentions, tourist_mentions, avg_sentiment,
                                     DefaultDaysSinceDiscovery),
         authenticity_score |-> calculate_authenticity_score(p, places[p], db_mentions, now),
         local_mentions_7d  |-> local_mentions,
         tourism_saturation |-> Rat(tourist_mentions, denom)]

\* variant: the lookup by the timestamp, not by its date
existing_scores_exact(db_scores, p, now) ==
    {r \in db_scores : r.place_id = p /\ r.score_date = now}

\* variant: the lookup by the place alone, whatever the day of the row
existing_scores_any_day(db_scores, p, now) ==
    {r \in db_scores : r.place_id = p}

\* variant: the lookup that never finds today's row
existing_scores_none(db_scores, p, now) == {}

\* db.query(models.GemScore).filter(place_id, func.date(score_date) == utcnow().date())
existing_scores(db_scores, p, now) ==
    {r \in db_scores : r.place_id = p /\ Day(r.score_date) = Day(now)}

\* the order of the new rows' ids: gem_scores.id is a serial column
NextId(db_scores) ==
    IF db_scores = {} THEN 1
    ELSE 1 + (CHOOSE i \in {r.id : r \in db_scores} : \A r \in db_scores : r.id <= i)

\* variant: a flush that writes the INSERTs and drops the UPDATEs
flush_inserts_only(db_scores, new, dirty, now) ==
    db_scores \cup
        {[id |-> (IF db_scores = {} THEN 0
                  ELSE CHOOSE k \in {r.id : r \in db_scores} : \A r \in db_scores : r.id <= k)
                 + i,
          place_id |-> new[i].place_id,
          score_date |-> now,
          hidden_gem_score |-> new[i].hidden_gem_score,
          trending_score |-> "NULL",
          authenticity_score |-> new[i].authenticity_score,
          tourism_saturation |-> new[i].tourism_saturation,
          local_mentions_7d |-> new[i].local_mentions_7d] : i \in 1..Len(new)}

\* variant: the UPDATE writing tourism_saturation too
flush_update_saturation(db_scores, new, dirty, now) ==
    LET updated == {IF r.id \in DOMAIN dirty
                    THEN [r EXCEPT !.hidden_gem_score   = dirty[r.id].hidden_gem_score,
                                   !.authenticity_score = dirty[r.id].authenticity_score,
                                   !.local_mentions_7d  = dirty[r.id].local_mentions_7d,
                                   !.tourism_saturation = dirty[r.id].tourism_saturation]
                    ELSE r : r \in db_scores}
        first == NextId(db_scores)
        inserted == {[id |-> first + i - 1,
                      place_id |-> new[i].place_id,
                      score_date |-> now,
                      hidden_gem_score |-> new[i].hidden_gem_score,
                      trending_score |-> "NULL",
                      authenticity_score |-> new[i].authenticity_score,
                      tourism_saturation |-> new[i].tourism_saturation,
                      local_mentions_7d |-> new[i].local_mentions_7d] : i \in 1..Len(new)}
    IN  updated \cup inserted

\* session.flush() at db.commit(): the UPDATEs by primary key, then the INSERTs,
\* whose score_date default (datetime.utcnow) is evaluated now
flush(db_scores, new, dirty, now) ==
    LET updated == {IF r.id \in DOMAIN dirty
                    THEN [r EXCEPT !.hidden_gem_score   = dirty[r.id].hidden_gem_score,
                                   !.authenticity_score = dirty[r.id].authenticity_score,
                                   !.local_mentions_7d  = dirty[r.id].local_mentions_7d]
                    ELSE r : r \in db_scores}
        first == NextId(db_scores)
        inserted == {[id |-> first + i - 1,
                      place_id |-> new[i].place_id,
                      score_date |-> now,
                      hidden_gem_score |-> new[i].hidden_gem_score,
                      trending_score |-> "NULL",
                      authenticity_score |-> new[i].authenticity_score,
                      tourism_saturation |-> new[i].tourism_saturation,
                      local_mentions_7d |-> new[i].local_mentions_7d] : i \in 1..Len(new)}
    IN  updated \cup inserted

\* the record of a finished invocation
FinishedRun(b, s, stage, faultPlace) ==
    [valid |-> TRUE, batch |-> b, city_id |-> s.city_id, stage |-> stage,
     raised |-> (stage # "done"), committed |-> (stage = "done"),
     faultPlace |-> faultPlace, computed |-> s.computed,
     t0 |-> s.t0, d1 |-> Day(clock), snaps0 |-> s.snaps0, mentions0 |-> s.mentions0]

Summary(run) ==
    IF run.valid /\ run.committed
    THEN [valid |-> TRUE, city_id |-> run.city_id, t0 |-> run.t0, d1 |-> run.d1,
          mentions0 |-> run.mentions0]
    ELSE NoPrev

InFlight(b) == session[b].pc # "idle"

\* the scheduler's assumption: at most one batch in flight
NoneInFlight == \A b \in Batches : ~InFlight(b)

\* a free worker slot takes the task: the lowest one
LowestIdle(b) == \A c \in Batches : c < b => InFlight(c)

StartGuard(b) == NoneInFlight /\ LowestIdle(b)

\* the task ends: the session is closed, the value is returned
Finish(b, stage, faultPlace) ==
    /\ session' = [session EXCEPT ![b] = IdleSession]
    /\ result' = [result EXCEPT ![b] =
                     update_gem_scores_return(stage # "done", session[b].city_id)]
    /\ prevRun' = Summary(lastRun)
    /\ lastRun' = FinishedRun(b, session[b], stage, faultPlace)

\* SessionLocal(); update_all_scores lists the city's places
TaskStart(b, city_id) ==
    /\ ~InFlight(b)
    /\ StartGuard(b)
    /\ runs < MaxRuns
    /\ runs' = runs + 1
    /\ session' = [session EXCEPT ![b] =
           [pc |-> "loop", city_id |-> city_id, todo |-> list_places(city_id),
            new |-> <<>>, dirty |-> <<>>, computed |-> <<>>,
            t0 |-> clock, snaps0 |-> gem_scores, mentions0 |-> mentions]]
    /\ UNCHANGED <<cache, clock, places, mentions, gem_scores, result, lastRun, prevRun,
                   adds, lastCall, prevCall>>

\* the task is started while another invocation is in flight: nothing in the task
\* or in update_all_scores looks for one
TaskStartConcurrent(b, city_id) ==
    /\ ~InFlight(b)
    /\ ~NoneInFlight /\ LowestIdle(b)
    /\ runs < MaxRuns
    /\ runs' = runs + 1
    /\ session' = [session EXCEPT ![b] =
           [pc |-> "loop", city_id |-> city_id, todo |-> list_places(city_id),
            new |-> <<>>, dirty |-> <<>>, computed |-> <<>>,
            t0 |-> clock, snaps0 |-> gem_scores, mentions0 |-> mentions]]
    /\ UNCHANGED <<cache, clock, places, mentions, gem_scores, result, lastRun, prevRun,
                   adds, lastCall, prevCall>>

\* listing the places raises: rollback, the task returns the error
ListFault(b, city_id) ==
    /\ ~InFlight(b)
    /\ StartGuard(b)
    /\ runs < MaxRuns
    /\ runs' = runs + 1
    /\ result' = [result EXCEPT ![b] = update_gem_scores_return(TRUE, city_id)]
    /\ prevRun' = Summary(lastRun)
    /\ lastRun' = FinishedRun(b, [IdleSession EXCEPT !.city_id = city_id, !.t0 = clock,
                                                     !.snaps0 = gem_scores,
                                                     !.mentions0 = mentions],
                              "list", NoPlace)
    /\ UNCHANGED <<cache, clock, places, mentions, gem_scores, session, adds, lastCall, prevCall>>

\* one iteration of the loop over places
ProcessPlace(b, p) ==
    /\ session[b].pc = "loop"
    /\ session[b].todo # <<>> /\ p = Head(session[b].todo)
    /\ LET s  == session[b]
           v  == place_values(p, mentions, clock)
           ex == existing_scores(gem_scores, p, clock)
           vals == [hidden_gem_score |-> v.gem.value,
                    authenticity_score |-> v.authenticity_score,
                    local_mentions_7d |-> v.local_mentions_7d,
                    tourism_saturation |-> v.tourism_saturation]
       IN  /\ ~v.gem.raised
           /\ ~calculate_authenticity_raises(places[p])
           /\ \/ /\ ex # {}
                 /\ \E r \in ex :     \* .first()
                      session' = [session EXCEPT ![b] =
                          [s EXCEPT !.todo = Tail(s.todo),
                                    !.dirty = (r.id :> vals) @@ s.dirty,
                                    !.computed = (p :> vals) @@ s.computed]]
              \/ /\ ex = {}
                 /\ session' = [session EXCEPT ![b] =
                          [s EXCEPT !.todo = Tail(s.todo),
                                    !.new = Append(s.new, [place_id |-> p] @@ vals),
                                    !.computed = (p :> vals) @@ s.computed]]
    /\ UNCHANGED <<cache, clock, places, mentions, gem_scores, result, lastRun, prevRun,
                   adds, runs, lastCall, prevCall>>

\* variant: a commit after every place, so that a fault leaves the earlier places written
PlaceFault_persist(b, p) ==
    /\ session[b].pc = "loop"
    /\ session[b].todo # <<>> /\ p = Head(session[b].todo)
    /\ gem_scores' = flush(gem_scores, session[b].new, session[b].dirty, clock)
    /\ Finish(b, "place", p)
    /\ UNCHANGED <<cache, clock, places, mentions, adds, runs, lastCall, prevCall>>

\* a query of the iteration raises: nothing catches it inside update_all_scores,
\* get_db_session rolls back and re-raises, the task returns the error
PlaceFault(b, p) ==
    /\ session[b].pc = "loop"
    /\ session[b].todo # <<>> /\ p = Head(session[b].todo)
    /\ Finish(b, "place", p)
    /\ UNCHANGED <<cache, clock, places, mentions, gem_scores, adds, runs, lastCall, prevCall>>

\* db.commit() after the loop, then the context manager's commit and close
Commit(b) ==
    /\ session[b].pc = "loop"
    /\ session[b].todo = <<>>
    /\ gem_scores' = flush(gem_scores, session[b].new, session[b].dirty, clock)
    /\ Finish(b, "done", NoPlace)
    /\ UNCHANGED <<cache, clock, places, mentions, adds, runs, lastCall, prevCall>>

\* db.commit() raises: the transaction is rolled back
CommitFault(b) ==
    /\ session[b].pc = "loop"
    /\ session[b].todo = <<>>
    /\ Finish(b, "commit", NoPlace)
    /\ UNCHANGED <<cache, clock, places, mentions, gem_scores, adds, runs, lastCall, prevCall>>

-----------------------------------------------------------------------------
(* The environment: ingestion inserts mentions, time passes.               *)

MentionSentiments == {Rat(-1, 1), Rat(1, 2)}
\* a mention one tick inside the 7-day window, or one tick inside the 30-day window
MentionAges       == {Days(MentionWindowDays) - 1, Days(AuthWindowDays) - 1}

AddMentions(p, is_local, age, sentiment, n) ==
    /\ adds < MaxAdds
    /\ adds' = adds + 1
    /\ LET first == Cardinality(mentions) + 1
       IN  mentions' = mentions \cup
               {[id |-> first + i - 1, place_id |-> p, is_local_author |-> is_local,
                 mention_date |-> clock - age, sentiment_score |-> sentiment] : i \in 1..n}
    /\ UNCHANGED <<cache, clock, places, gem_scores, session, result, lastRun, prevRun,
                   runs, lastCall, prevCall>>

Tick ==
    /\ clock < MaxClock
    /\ clock' = clock + 1
    /\ UNCHANGED <<cache, places, mentions, gem_scores, session, result, lastRun, prevRun,
                   adds, runs, lastCall, prevCall>>

\* the arguments a wrapped function is called with; the cache key
\* f"{key_prefix}:{hash(str(args) + str(kwargs))}" is one key per arguments
CacheArgs == {"region=None", "region=Bretagne"}

NoValue == <<>>

\* redis_client = None (the connection failed at import), nothing stored
NoCache == [client |-> FALSE, store |-> [k \in CacheArgs |-> NoValue], calls |-> 0]

NoCall == [fn |-> "none", done |-> TRUE, args |-> <<>>, raised |-> FALSE, value |-> Int2Rat(0)]

InitStore ==
    /\ clock = 0
    /\ places = PlaceTable
    /\ mentions = {}
    /\ gem_scores = {}
    /\ session = [b \in Batches |-> IdleSession]
    /\ result = [b \in Batches |-> NoResult]
    /\ lastRun = NoRun
    /\ prevRun = NoPrev
    /\ adds = 0
    /\ runs = 0
    /\ cache = NoCache

Init ==
    /\ InitStore
    /\ lastCall = NoCall
    /\ prevCall = NoCall

Next ==
    \/ \E b \in Batches, c \in CityIds : TaskStart(b, c)
    \/ \E b \in Batches, c \in CityIds : ListFault(b, c)
    \/ \E b \in Batches, p \in PlaceIds : ProcessPlace(b, p)
    \/ \E b \in Batches, p \in PlaceIds : PlaceFault(b, p)
    \/ \E b \in Batches : Commit(b)
    \/ \E b \in Batches : CommitFault(b)
    \/ \E p \in PlaceIds, l \in BOOLEAN, s \in MentionSentiments :
          AddMentions(p, l, Days(MentionWindowDays) - 1, s, 1)
    \/ Tick

Spec == Init /\ [][Next]_vars

\* the same tasks without the scheduler's assumption
NextConcurrent ==
    \/ \E b \in Batches, c \in CityIds : TaskStart(b, c)
    \/ \E b \in Batches, c \in CityIds : TaskStartConcurrent(b, c)
    \/ \E b \in Batches, p \in PlaceIds : ProcessPlace(b, p)
    \/ \E b \in Batches, p \in PlaceIds : PlaceFault(b, p)
    \/ \E b \in Batches : Commit(b)
    \/ \E b \in Batches : CommitFault(b)
    \/ Tick

SpecConcurrent == Init /\ [][NextConcurrent]_vars

\* rows the ingestion may have left in the mentions table before the first run:
\* mentions of p1 one tick inside the 7-day window, exactly 7 days old and almost
\* 30 days old, and a mention of p3 of the moment
StoredMentions ==
    {[id |-> 1, place_id |-> "p1", is_local_author |-> TRUE,
      mention_date |-> 1 - Days(MentionWindowDays), sentiment_score |-> Rat(1, 2)],
     [id |-> 2, place_id |-> "p1", is_local_author |-> FALSE,
      mention_date |-> 0 - Days(MentionWindowDays), sentiment_score |-> Rat(-1, 1)],
     [id |-> 3, place_id |-> "p1", is_local_author |-> FALSE,
      mention_date |-> 1 - Days(MentionWindowDays), sentiment_score |-> Rat(-1, 1)],
     [id |-> 4, place_id |-> "p1", is_local_author |-> TRUE,
      mention_date |-> 1 - Days(AuthWindowDays), sentiment_score |-> Rat(1, 2)],
     [id |-> 5, place_id |-> "p3", is_local_author |-> TRUE,
      mention_date |-> 0, sentiment_score |-> Rat(1, 2)]}

\* the runs over a mentions table that is already filled
InitWindow ==
    /\ clock = 0
    /\ places = PlaceTable
    /\ mentions \in SUBSET StoredMentions
    /\ gem_scores = {}
    /\ session = [b \in Batches |-> IdleSession]
    /\ result = [b \in Batches |-> NoResult]
    /\ lastRun = NoRun
    /\ prevRun = NoPrev
    /\ adds = 0
    /\ runs = 0
    /\ cache = NoCache
    /\ lastCall = NoCall
    /\ prevCall = NoCall

NextWindow ==
    \/ \E b \in Batches, c \in CityIds : TaskStart(b, c)
    \/ \E b \in Batches, p \in PlaceIds : ProcessPlace(b, p)
    \/ \E b \in Batches : Commit(b)
    \/ Tick

SpecWindow == InitWindow /\ [][NextWindow]_vars

-----------------------------------------------------------------------------
(* cache_key_wrapper (backend/app/core/cache.py), one call of a wrapped    *)
(* function at a time.                                                     *)

MaxCalls == 2

\* what one run of the wrapped function may end in: a list that json can encode,
\* or an exception
FuncOutcomes ==
    {[raised |-> FALSE, value |-> v] : v \in {<<"Paris">>, <<"Paris", "Rennes">>}}
    \cup {[raised |-> TRUE, value |-> NoValue]}

\* json.dumps(result, default=str) and json.loads: the text of a list of strings
dumps(obj)  == [json |-> obj]
loads(text)   == text.json

\* wrapper(*args, **kwargs) is entered; executions counts the runs of the wrapped
\* function in this call, hit tells that the call returned the cached value
WrapperCall(a) ==
    /\ lastCall.done
    /\ cache.calls < MaxCalls
    /\ cache' = [cache EXCEPT !.calls = cache.calls + 1]
    /\ lastCall' = [fn |-> "wrapper", done |-> FALSE, args |-> a,
                    pc |-> IF cache.client THEN "get" ELSE "direct",
                    executions |-> 0, hit |-> FALSE, raised |-> FALSE, value |-> NoValue]
    /\ UNCHANGED <<clock, places, mentions, gem_scores, session, result, lastRun,
                   prevRun, adds, runs, prevCall>>

\* redis_client is None: return await func(*args, **kwargs)
RunDirect(outcome) ==
    /\ lastCall.fn = "wrapper" /\ ~lastCall.done /\ lastCall.pc = "direct"
    /\ lastCall' = [lastCall EXCEPT !.done = TRUE, !.pc = "returned",
                                    !.executions = lastCall.executions + 1,
                                    !.raised = outcome.raised, !.value = outcome.value]
    /\ UNCHANGED <<clock, places, mentions, gem_scores, session, result, lastRun,
                   prevRun, adds, runs, prevCall, cache>>

\* redis_client.get(cache_key): a hit returns json.loads(cached_result), a miss
\* goes on to the function
CacheGet ==
    /\ lastCall.fn = "wrapper" /\ ~lastCall.done /\ lastCall.pc = "get"
    /\ LET cached_result == cache.store[lastCall.args]
       IN  IF cached_result # NoValue
           THEN lastCall' = [lastCall EXCEPT !.done = TRUE, !.pc = "returned",
                                             !.hit = TRUE,
                                             !.value = loads(cached_result)]
           ELSE lastCall' = [lastCall EXCEPT !.pc = "func"]
    /\ UNCHANGED <<clock, places, mentions, gem_scores, session, result, lastRun,
                   prevRun, adds, runs, prevCall, cache>>

\* redis_client.get raises (the connection is lost): the except branch is taken
CacheGetFault ==
    /\ lastCall.fn = "wrapper" /\ ~lastCall.done /\ lastCall.pc = "get"
    /\ lastCall' = [lastCall EXCEPT !.pc = "except"]
    /\ UNCHANGED <<clock, places, mentions, gem_scores, session, result, lastRun,
                   prevRun, adds, runs, prevCall, cache>>

\* result = await func(*args, **kwargs) inside the try: an exception of the
\* function is caught by the except branch as well
RunInTry(outcome) ==
    /\ lastCall.fn = "wrapper" /\ ~lastCall.done /\ lastCall.pc = "func"
    /\ lastCall' = [lastCall EXCEPT !.pc = IF outcome.raised THEN "except" ELSE "setex",
                                    !.executions = lastCall.executions + 1,
                                    !.value = outcome.value]
    /\ UNCHANGED <<clock, places, mentions, gem_scores, session, result, lastRun,
                   prevRun, adds, runs, prevCall, cache>>

\* redis_client.setex(cache_key, timeout, json.dumps(result, default=str)); return result
CacheSet ==
    /\ lastCall.fn = "wrapper" /\ ~lastCall.done /\ lastCall.pc = "setex"
    /\ cache' = [cache EXCEPT !.store[lastCall.args] = dumps(lastCall.value)]
    /\ lastCall' = [lastCall EXCEPT !.done = TRUE, !.pc = "returned"]
    /\ UNCHANGED <<clock, places, mentions, gem_scores, session, result, lastRun,
                   prevRun, adds, runs, prevCall>>

\* redis_client.setex raises: the except branch is taken, nothing is stored
CacheSetFault ==
    /\ lastCall.fn = "wrapper" /\ ~lastCall.done /\ lastCall.pc = "setex"
    /\ lastCall' = [lastCall EXCEPT !.pc = "except"]
    /\ UNCHANGED <<clock, places, mentions, gem_scores, session, result, lastRun,
                   prevRun, adds, runs, prevCall, cache>>

\* except Exception: logger.error(...); return await func(*args, **kwargs)
RunFallback(outcome) ==
    /\ lastCall.fn = "wrapper" /\ ~lastCall.done /\ lastCall.pc = "except"
    /\ lastCall' = [lastCall EXCEPT !.done = TRUE, !.pc = "returned",
                                    !.executions = lastCall.executions + 1,
                                    !.raised = outcome.raised, !.value = outcome.value]
    /\ UNCHANGED <<clock, places, mentions, gem_scores, session, result, lastRun,
                   prevRun, adds, runs, prevCall, cache>>

\* a key set with setex is dropped by Redis when its timeout has passed
Expire(k) ==
    /\ cache.store[k] # NoValue
    /\ cache' = [cache EXCEPT !.store[k] = NoValue]
    /\ UNCHANGED <<clock, places, mentions, gem_scores, session, result, lastRun,
                   prevRun, adds, runs, lastCall, prevCall>>

\* the module is imported: redis_client is a client when the ping succeeded, None
\* when it failed
InitCache ==
    /\ clock = 0
    /\ places = PlaceTable
    /\ mentions = {}
    /\ gem_scores = {}
    /\ session = [b \in Batches |-> IdleSession]
    /\ result = [b \in Batches |-> NoResult]
    /\ lastRun = NoRun
    /\ prevRun = NoPrev
    /\ adds = 0
    /\ runs = 0
    /\ lastCall = NoCall
    /\ prevCall = NoCall
    /\ \E client \in BOOLEAN : cache = [NoCache EXCEPT !.client = client]

NextCache ==
    \/ \E a \in CacheArgs : WrapperCall(a)
    \/ \E outcome \in FuncOutcomes : RunDirect(outcome)
    \/ CacheGet
    \/ CacheGetFault
    \/ \E outcome \in FuncOutcomes : RunInTry(outcome)
    \/ CacheSet
    \/ CacheSetFault
    \/ \E outcome \in FuncOutcomes : RunFallback(outcome)
    \/ \E k \in CacheArgs : Expire(k)

SpecCache == InitCache /\ [][NextCache]_vars

-----------------------------------------------------------------------------
(* Direct calls of the two scoring functions (as the repository's test     *)
(* test_place_scorer does for calculate_gem_score).                        *)

GemFn  == "calculate_gem_score"
AuthFn == "calculate_authenticity_score"

\* a call that has not returned yet
PendingGemCall(l, t, s, d) ==
    [fn |-> GemFn, done |-> FALSE,
     args |-> [local_mentions |-> l, tourist_mentions |-> t,
               sentiment |-> s, days_since_discovery |-> d],
     raised |-> FALSE, value |-> Int2Rat(0)]

\* the call returns (or raises)
ReturnedGemCall(call) ==
    LET r == calculate_gem_score(call.args.local_mentions, call.args.tourist_mentions,
                                 call.args.sentiment, call.args.days_since_discovery)
    IN  [call EXCEPT !.done = TRUE, !.raised = r.raised, !.value = r.value]

GemReturnPrev ==
    /\ prevCall.fn = GemFn
    /\ ~prevCall.done
    /\ prevCall' = ReturnedGemCall(prevCall)
    /\ UNCHANGED <<cache, clock, places, mentions, gem_scores, session, result, lastRun,
                   prevRun, adds, runs, lastCall>>

GemReturn ==
    /\ lastCall.fn = GemFn
    /\ ~lastCall.done
    /\ prevCall.done
    /\ lastCall' = ReturnedGemCall(lastCall)
    /\ UNCHANGED <<cache, clock, places, mentions, gem_scores, session, result, lastRun,
                   prevRun, adds, runs, prevCall>>

\* one call, over a wide range of arguments
GemCounts     == {-10, -1, 0, 1, 2, 10}
GemSentiments == {Rat(-3, 1), Rat(-2, 1), Rat(-1, 1), Rat(-1, 2), Rat(-1, 4), Rat(0, 1),
                  Rat(1, 4), Rat(1, 2), Rat(1, 1), Rat(2, 1), Rat(3, 1)}
GemDays       == {-5, 0, 1, 15, 29, 30, 31, 100}

InitGem ==
    /\ InitStore
    /\ prevCall = NoCall
    /\ \E l \in GemCounts, t \in GemCounts, s \in GemSentiments, d \in GemDays :
          lastCall = PendingGemCall(l, t, s, d)

NextGem == GemReturn

SpecGem == InitGem /\ [][NextGem]_vars

\* two calls in a row
PairCounts     == {0, 1, 10}
PairSentiments == {Rat(-1, 4), Rat(0, 1), Rat(1, 2)}
PairDays       == {0, 15, 30, 100}

InitGemPair ==
    /\ InitStore
    /\ \E l \in PairCounts, t \in PairCounts, s \in PairSentiments, d \in PairDays :
          prevCall = PendingGemCall(l, t, s, d)
    /\ \E l \in PairCounts, t \in PairCounts, s \in PairSentiments, d \in PairDays :
          lastCall = PendingGemCall(l, t, s, d)

NextGemPair == GemReturnPrev \/ GemReturn

SpecGemPair == InitGemPair /\ [][NextGemPair]_vars

\* two calls in a row while mentions come in and time passes
PureCounts     == {0, 10}
PureSentiments == {Rat(0, 1), Rat(1, 2)}
PureDays       == {0, 30}

InitGemPure ==
    /\ InitStore
    /\ \E l \in PureCounts, t \in PureCounts, s \in PureSentiments, d \in PureDays :
          prevCall = PendingGemCall(l, t, s, d)
    /\ \E l \in PureCounts, t \in PureCounts, s \in PureSentiments, d \in PureDays :
          lastCall = PendingGemCall(l, t, s, d)

NextGemPure ==
    \/ GemReturnPrev
    \/ GemReturn
    \/ \E l \in BOOLEAN : AddMentions("p1", l, Days(MentionWindowDays) - 1, Rat(1, 2), 1)
    \/ Tick

SpecGemPure == InitGemPure /\ [][NextGemPure]_vars

\* the place rows calculate_authenticity_score is called on
AuthMichelin  == {0, 2}
AuthAddresses == {NullStr, AddrEmpty, AddrPlain, AddrLandmark}
AuthBulk      == {1, 10, 11}

CallAuthenticity(p) ==
    /\ prevCall' = lastCall
    /\ lastCall' = [fn |-> AuthFn, done |-> TRUE,
                    args |-> [place_id |-> p, mentions |-> mentions, now |-> clock]]
                   @@ (IF calculate_authenticity_raises(places[p]) THEN Raised
                       ELSE Returned(calculate_authenticity_score(p, places[p],
                                                                  mentions, clock)))
    /\ UNCHANGED <<cache, clock, places, mentions, gem_scores, session, result, lastRun,
                   prevRun, adds, runs>>

InitAuth ==
    /\ places \in [{"p1"} -> [city_id : {1}, michelin_stars : AuthMichelin,
                              address : AuthAddresses]]
    /\ clock = 0
    /\ mentions = {}
    /\ gem_scores = {}
    /\ session = [b \in Batches |-> IdleSession]
    /\ result = [b \in Batches |-> NoResult]
    /\ lastRun = NoRun
    /\ prevRun = NoPrev
    /\ adds = 0
    /\ runs = 0
    /\ cache = NoCache
    /\ lastCall = NoCall
    /\ prevCall = NoCall

NextAuth ==
    \/ \E p \in DOMAIN places, l \in BOOLEAN, a \in MentionAges, n \in AuthBulk :
          AddMentions(p, l, a, Rat(1, 2), n)
    \/ Tick
    \/ \E p \in DOMAIN places : CallAuthenticity(p)

SpecAuth == InitAuth /\ [][NextAuth]_vars

\* the text blobs _extract_places is called on: up to MaxPhrases phrases in a row
MaxPhrases == 2

\* phrases of a post, by name
Phrase ==
    [VisiterUpper |->
        <<"v", "i", "s", "i", "t", "e", "r", " ", "L", "e", " ", "Z", "i", "n", "c", ".">>,
     VisiterLower |->
        <<"v", "i", "s", "i", "t", "e", "r", " ", "l", "e", " ", "z", "i", "n", "c", ".">>,
     EstTop |->
        <<"L", "e", " ", "Z", "i", "n", "c", " ", " ", "e", "s", "t", " ", "t", "o", "p",
          "!">>,
     Short |->
        <<"e", "s", "s", "a", "y", "e", "r", " ", "L", "e", " ", " ", ",">>,
     Stopword |->
        <<"v", "i", "s", "i", "t", "e", "r", " ", "d", "e", "s", ";">>,
     StopwordUpper |->
        <<"r", "e", "c", "o", "m", "m", "a", "n", "d", "e", " ", "L", "E", "S", "?">>,
     CafeAppele |->
        <<"c", "a", "f", "A_tilde", "D_stroke", " ", "a", "p", "p", "e", "l", "A_tilde",
          "D_stroke", " ", "C", "h", "e", "z", " ", "N", "o", "u", "s", ",", " ">>,
     Bistrot |->
        <<"b", "i", "s", "t", "r", "o", "t", " ", "a", "p", "p", "e", "l", "e_acute",
          " ", "C", "h", "e", "z", " ", "N", "o", "u", "s", "\n">>,
     AllerA |->
        <<"a", "l", "l", "e", "r", " ", "A_tilde", "nbsp", " ", "M", "o", "n", "t", "m",
          "a", "r", "t", "r", "e", " ", "e", "s", "t", " ", "s", "u", "p", "e", "r">>,
     Long |->
        <<"u", "n", " ", "r", "e", "s", "t", "a", "u", "r", "a", "n", "t", " ", "L", "e",
          " ", "G", "r", "a", "n", "d", " ", "B", "o", "u", "i", "l", "l", "o", "n", " ",
          "C", "h", "a", "r", "t", "i", "e", "r", " ", "M", "o", "n", "t", "m", "a", "r",
          "t", "r", "e", " ">>,
     Habite |->
        <<"J", "'", "H", "A", "B", "I", "T", "E", " ", "i", "c", "i", ".", " ">>,
     BarLocal |->
        <<"v", "i", "s", "i", "t", "e", "r", " ", "B", "a", "r", " ", "L", "o", "c", "a",
          "l", ".">>]

Phrases == {Phrase[n] : n \in DOMAIN Phrase}

RECURSIVE Concat(_)
Concat(parts) == IF parts = <<>> THEN <<>> ELSE Head(parts) \o Concat(Tail(parts))

Texts == {Concat(parts) : parts \in UNION {[1..n -> Phrases] : n \in 1..MaxPhrases}}

ExtractFn == "_extract_places"

PendingExtractCall(text) ==
    [fn |-> ExtractFn, done |-> FALSE, args |-> [text |-> text],
     raised |-> FALSE, value |-> {}]

ExtractReturn ==
    /\ lastCall.fn = ExtractFn
    /\ ~lastCall.done
    /\ lastCall' = [lastCall EXCEPT !.done = TRUE,
                                    !.value = extract_places(lastCall.args.text)]
    /\ UNCHANGED <<cache, clock, places, mentions, gem_scores, session, result, lastRun,
                   prevRun, adds, runs, prevCall>>

InitExtract ==
    /\ InitStore
    /\ prevCall = NoCall
    /\ \E text \in Texts : lastCall = PendingExtractCall(text)

NextExtract == ExtractReturn

SpecExtract == InitExtract /\ [][NextExtract]_vars

\* RedditScraper._is_local_mention
local_indicators ==
    {<<"h", "a", "b", "i", "t", "a", "n", "t">>,
     <<"j", "'", "h", "a", "b", "i", "t", "e">>,
     <<"l", "o", "c", "a", "l">>,
     <<"q", "u", "a", "r", "t", "i", "e", "r">>,
     <<"v", "o", "i", "s", "i", "n">>}

is_local_mention(text) ==
    \E indicator \in local_indicators : Contains(lower(text), indicator)

\* variant: the classification taken from the extracted name
submission_mentions_per_name(submission) ==
    IF submission.selftext = <<>> THEN {}
    ELSE {[source_type |-> "reddit",
           source_url  |-> submission.permalink,
           place_name  |-> place,
           is_local    |-> is_local_mention(place)] :
              place \in extract_places(submission.selftext)}

\* the dicts one iteration of the loop over submissions appends (text, date and
\* engagement, copies of the submission's attributes, are left out)
submission_mentions(submission) ==
    IF submission.selftext = <<>> THEN {}
    ELSE {[source_type |-> "reddit",
           source_url  |-> submission.permalink,
           place_name  |-> place,
           is_local    |-> is_local_mention(submission.selftext)] :
              place \in extract_places(submission.selftext)}

\* what subreddit.hot() may list: one post of any text, a link post without
\* text, or two posts of one phrase each
Listings ==
    {<<[permalink |-> 1, selftext |-> text]>> : text \in Texts \cup {<<>>}}
    \cup {<<[permalink |-> 1, selftext |-> a], [permalink |-> 2, selftext |-> b]>> :
             a \in Phrases, b \in Phrases}

\* a call of scrape_subreddit: reddit is None when the API is not configured;
\* todo are the submissions the loop has not reached
PendingScrapeCall(reddit, listing) ==
    [fn |-> "scrape_subreddit", done |-> FALSE,
     args |-> [reddit |-> reddit, listing |-> listing],
     todo |-> listing, raised |-> FALSE, value |-> {}]

\* one iteration of the loop over subreddit.hot(limit)
ScrapeSubmission ==
    /\ lastCall.fn = "scrape_subreddit" /\ ~lastCall.done
    /\ lastCall.args.reddit
    /\ lastCall.todo # <<>>
    /\ lastCall' = [lastCall EXCEPT
                       !.todo = Tail(lastCall.todo),
                       !.value = lastCall.value \cup submission_mentions(Head(lastCall.todo))]
    /\ UNCHANGED <<cache, clock, places, mentions, gem_scores, session, result, lastRun,
                   prevRun, adds, runs, prevCall>>

\* the API raises: the exception is logged and the mentions gathered so far are
\* returned
ScrapeFault ==
    /\ lastCall.fn = "scrape_subreddit" /\ ~lastCall.done
    /\ lastCall.args.reddit
    /\ lastCall' = [lastCall EXCEPT !.done = TRUE]
    /\ UNCHANGED <<cache, clock, places, mentions, gem_scores, session, result, lastRun,
                   prevRun, adds, runs, prevCall>>

\* return [] without the API, return mentions after the loop
ScrapeReturn ==
    /\ lastCall.fn = "scrape_subreddit" /\ ~lastCall.done
    /\ ~lastCall.args.reddit \/ lastCall.todo = <<>>
    /\ lastCall' = [lastCall EXCEPT !.done = TRUE]
    /\ UNCHANGED <<cache, clock, places, mentions, gem_scores, session, result, lastRun,
                   prevRun, adds, runs, prevCall>>

InitScrape ==
    /\ InitStore
    /\ prevCall = NoCall
    /\ \E reddit \in BOOLEAN, listing \in Listings :
          lastCall = PendingScrapeCall(reddit, listing)

NextScrape == ScrapeSubmission \/ ScrapeFault \/ ScrapeReturn

SpecScrape == InitScrape /\ [][NextScrape]_vars

-----------------------------------------------------------------------------
(* Properties.                                                             *)

Hundred == Int2Rat(100)
InRange(v) == RLe(Int2Rat(0), v) /\ RLe(v, Hundred)

GemCalled(call) == call.fn = GemFn /\ call.done

\* C1: for local_mentions >= 0, tourist_mentions >= 0, sentiment in [-2, 2] and
\* days_since_discovery >= 0, calculate_gem_score returns a score in [0, 100].
C1_GemScoreInRange ==
    (/\ GemCalled(lastCall)
     /\ lastCall.args.local_mentions >= 0
     /\ lastCall.args.tourist_mentions >= 0
     /\ RLe(Int2Rat(-2), lastCall.args.sentiment)
     /\ RLe(lastCall.args.sentiment, Int2Rat(2))
     /\ lastCall.args.days_since_discovery >= 0)
    => (~lastCall.raised /\ InRange(lastCall.value))

\* the call of test_place_scorer has returned: 10 local, 2 tourist, sentiment 0.5,
\* day 15 gives 125 + 10, capped at 100
C1_Witness ==
    /\ GemCalled(lastCall)
    /\ lastCall.args = [local_mentions |-> 10, tourist_mentions |-> 2,
                        sentiment |-> Rat(1, 2), days_since_discovery |-> 15]
    /\ ~lastCall.raised
    /\ lastCall.value = Hundred

\* C10: with no tourist mentions, sentiment 0 and days_since_discovery >= 30,
\* calculate_gem_score returns exactly 100 for every local_mentions >= 0.
C10_NoTouristNeutralIs100 ==
    (/\ GemCalled(lastCall)
     /\ lastCall.args.tourist_mentions = 0
     /\ lastCall.args.sentiment = Int2Rat(0)
     /\ lastCall.args.days_since_discovery >= 30
     /\ lastCall.args.local_mentions >= 0)
    => (~lastCall.raised /\ lastCall.value = Hundred)

C10_Witness ==
    /\ GemCalled(lastCall)
    /\ lastCall.args = [local_mentions |-> 10, tourist_mentions |-> 0,
                        sentiment |-> Int2Rat(0), days_since_discovery |-> 100]
    /\ lastCall.value = Hundred

\* two calls in a row with the same counts and sentiment, the first at day 0, the
\* second at day 30 or later
FreshPair ==
    /\ GemCalled(prevCall) /\ GemCalled(lastCall)
    /\ ~prevCall.raised /\ ~lastCall.raised
    /\ prevCall.args.local_mentions = lastCall.args.local_mentions
    /\ prevCall.args.tourist_mentions = lastCall.args.tourist_mentions
    /\ prevCall.args.sentiment = lastCall.args.sentiment
    /\ prevCall.args.days_since_discovery = 0
    /\ lastCall.args.days_since_discovery >= 30

SpecPair ==
    /\ FreshPair
    /\ lastCall.args = [local_mentions |-> 10, tourist_mentions |-> 0,
                        sentiment |-> Int2Rat(0), days_since_discovery |-> 30]

\* C5 as stated: calculate_gem_score(10, 0, 0, 0) - calculate_gem_score(10, 0, 0, 30)
\* is 20, the entire freshness bonus.
C5_DifferenceIsWholeBonus ==
    SpecPair => RSub(prevCall.value, lastCall.value) = Int2Rat(FreshnessBonus)

\* C5: the two scores of the stated case are both 100 and differ by 0, the cap at
\* 100 taking the bonus; for non-negative counts the day-0 score exceeds the
\* day->=30 score by min(100, s30 + 20) - s30, which is the entire bonus 20
\* exactly when the day->=30 score s30 is at most 80.
C5_DifferenceUnderCap ==
    /\ SpecPair => (prevCall.value = Hundred /\ lastCall.value = Hundred)
    /\ FreshPair =>
          /\ RSub(prevCall.value, lastCall.value) =
                RSub(RMin(Hundred, RAdd(lastCall.value, Int2Rat(FreshnessBonus))),
                     lastCall.value)
          /\ (RSub(prevCall.value, lastCall.value) = Int2Rat(FreshnessBonus))
                <=> RLe(lastCall.value, Int2Rat(80))

C5_Witness ==
    /\ SpecPair
    /\ RSub(prevCall.value, lastCall.value) = Int2Rat(0)

\* the count of local-authored mentions of place p dated within the 30 days before
\* now, in the mentions table ms
LocalLast30(ms, p, now) ==
    Cardinality({m \in ms : /\ m.place_id = p
                            /\ m.is_local_author
                            /\ now - m.mention_date < Days(30)})

Clamp100(i) == IF i < 0 THEN 0 ELSE IF i > 100 THEN 100 ELSE i

AuthCalled == lastCall.fn = AuthFn /\ lastCall.done

\* C9: calculate_authenticity_score returns
\* clamp(100 - 20*[premium designation] - 30*[landmark address] + 20*[more than 10
\* local mentions in the trailing 30 days], 0, 100); a place with a premium
\* designation, a landmark address and at most 10 such mentions scores 50.
C9_AuthenticityFormula ==
    AuthCalled =>
        LET p        == lastCall.args.place_id
            premium  == places[p].michelin_stars > 0
            landmark == places[p].address = AddrLandmark
            recent   == LocalLast30(lastCall.args.mentions, p, lastCall.args.now)
        IN  /\ ~lastCall.raised
            /\ lastCall.value =
                  Int2Rat(Clamp100(100 - (IF premium THEN 20 ELSE 0)
                                       - (IF landmark THEN 30 ELSE 0)
                                       + (IF recent > 10 THEN 20 ELSE 0)))
            /\ (premium /\ landmark /\ recent <= 10) => lastCall.value = Int2Rat(50)

\* a starred place at a landmark address with exactly 10 recent local mentions
\* has been scored 50
C9_Witness ==
    /\ AuthCalled
    /\ places[lastCall.args.place_id].michelin_stars > 0
    /\ places[lastCall.args.place_id].address = AddrLandmark
    /\ LocalLast30(lastCall.args.mentions, lastCall.args.place_id, lastCall.args.now) = 10
    /\ lastCall.value = Int2Rat(50)

CityPlaces(c) == {p \in DOMAIN places : places[p].city_id = c}

\* the snapshots of place p dated on day d
SnapshotsOn(p, d) == {r \in gem_scores : r.place_id = p /\ Day(r.score_date) = d}

\* the snapshots of place p dated on a calendar day of the last run
SnapshotsOfRun(p) ==
    {r \in gem_scores : /\ r.place_id = p
                        /\ Day(lastRun.t0) <= Day(r.score_date)
                        /\ Day(r.score_date) <= lastRun.d1}

\* C2 as stated: when the computation for one place raises, that place is skipped
\* and the batch still produces today's snapshot for every other place of the city.
C2_FaultyPlaceSkipped ==
    (lastRun.valid /\ lastRun.stage = "place") =>
        \A p \in CityPlaces(lastRun.city_id) \ {lastRun.faultPlace} :
            SnapshotsOfRun(p) # {}

\* C3: after any sequence of non-overlapping runs the store holds at most one
\* snapshot per (place, calendar day).
C3_OneSnapshotPerPlaceDay ==
    \A r1 \in gem_scores, r2 \in gem_scores :
        (r1.place_id = r2.place_id /\ Day(r1.score_date) = Day(r2.score_date)) => r1 = r2

\* two runs for one city have committed on the same day
SameDayRerun ==
    /\ lastRun.valid /\ lastRun.committed
    /\ prevRun.valid
    /\ prevRun.city_id = lastRun.city_id
    /\ Day(prevRun.t0) = lastRun.d1

\* city 1 was scored twice, the second run spanning midnight: p1 has one snapshot
\* on each of the two days
C3_Witness ==
    /\ lastRun.valid /\ lastRun.committed /\ lastRun.city_id = 1
    /\ prevRun.valid /\ prevRun.city_id = 1
    /\ Day(lastRun.t0) < lastRun.d1
    /\ \E r1 \in gem_scores, r2 \in gem_scores :
          /\ r1.place_id = "p1" /\ r2.place_id = "p1"
          /\ Day(r1.score_date) # Day(r2.score_date)

SameValues(r, v) ==
    /\ r.hidden_gem_score = v.hidden_gem_score
    /\ r.authenticity_score = v.authenticity_score
    /\ r.local_mentions_7d = v.local_mentions_7d

\* after the second of two same-day runs every place of the city has exactly one
\* snapshot for the day, carrying the second run's values
SecondRunOverwrites ==
    \A p \in CityPlaces(lastRun.city_id) :
        /\ Cardinality(SnapshotsOn(p, lastRun.d1)) = 1
        /\ p \in DOMAIN lastRun.computed
        /\ \A r \in SnapshotsOn(p, lastRun.d1) : SameValues(r, lastRun.computed[p])

\* no mention crosses the edge of the 7-day or of the 30-day window between t0 and t1
WindowsStable(t0, t1) ==
    \A m \in mentions :
        /\ (m.mention_date > t0 - Days(MentionWindowDays))
              <=> (m.mention_date > t1 - Days(MentionWindowDays))
        /\ (m.mention_date > t0 - Days(AuthWindowDays))
              <=> (m.mention_date > t1 - Days(AuthWindowDays))

\* C4 as stated: two runs in succession on the same day for the same city leave
\* exactly one snapshot per place for the day with the second run's values, and
\* with unchanged mentions the second run leaves the snapshots as the first left them.
C4_RerunIdempotent ==
    SameDayRerun =>
        /\ SecondRunOverwrites
        /\ (mentions = prevRun.mentions0) => gem_scores = lastRun.snaps0

\* C4: two runs in succession on the same day for the same city leave exactly one
\* snapshot per place for the day with the second run's values; with unchanged
\* mentions, none of which crosses the edge of a trailing window between the two
\* runs, the second run leaves the snapshots as the first left them.
C4_RerunIdempotentInWindow ==
    SameDayRerun =>
        /\ SecondRunOverwrites
        /\ (mentions = prevRun.mentions0 /\ WindowsStable(prevRun.t0, clock))
              => gem_scores = lastRun.snaps0

\* city 1 was scored twice on one day, a mention of p1 being there all along
C4_Witness ==
    /\ SameDayRerun
    /\ lastRun.city_id = 1
    /\ mentions = prevRun.mentions0
    /\ \E m \in mentions : m.place_id = "p1"
    /\ WindowsStable(prevRun.t0, clock)
    /\ SecondRunOverwrites
    /\ gem_scores = lastRun.snaps0

\* C6: a city batch is all-or-nothing.  While a batch is in flight the committed
\* snapshots are those of its start (nothing is written before the one commit after
\* the last place); a batch that failed, at whatever place, has left them as they
\* were; a batch that committed has given every place of the city its values.
C6_AllOrNothing ==
    /\ \A b \in Batches : InFlight(b) => gem_scores = session[b].snaps0
    /\ (lastRun.valid /\ lastRun.raised) =>
          (~lastRun.committed /\ gem_scores = lastRun.snaps0)
    /\ (lastRun.valid /\ lastRun.committed) =>
          \A p \in CityPlaces(lastRun.city_id) :
              /\ p \in DOMAIN lastRun.computed
              /\ \E r \in SnapshotsOfRun(p) : SameValues(r, lastRun.computed[p])

\* a batch of city 1 failed at its second place, after the overwrite of the first
\* place's snapshot of an earlier batch was pending
C6_Witness ==
    /\ lastRun.valid /\ lastRun.raised
    /\ lastRun.city_id = 1
    /\ lastRun.faultPlace = "p2"
    /\ "p1" \in DOMAIN lastRun.computed
    /\ prevRun.valid /\ prevRun.city_id = 1
    /\ SnapshotsOn("p1", lastRun.d1) # {}
    /\ gem_scores = lastRun.snaps0

\* C7: the task never raises: it returns status "error" whenever update_all_scores
\* raised (listing the places included) and status "success" only when the batch
\* committed.
C7_FailureReported ==
    lastRun.valid =>
        /\ result[lastRun.batch].status \in {"error", "success"}
        /\ lastRun.raised => result[lastRun.batch].status = "error"
        /\ result[lastRun.batch].status = "success" => lastRun.committed

\* listing the places failed and the task returned the error
C7_Witness ==
    /\ lastRun.valid
    /\ lastRun.stage = "list"
    /\ lastRun.raised
    /\ result[lastRun.batch].status = "error"

\* C8: after update_all_scores(city) a place of the city with no mentions at all has
\* a snapshot for the day of the run with hidden_gem_score 100 and
\* local_mentions_7d 0.
C8_NoMentionsScores100 ==
    (lastRun.valid /\ lastRun.committed) =>
        \A p \in CityPlaces(lastRun.city_id) :
            (\A m \in mentions : m.place_id # p) =>
                \E r \in SnapshotsOfRun(p) :
                    /\ r.hidden_gem_score = Hundred
                    /\ r.local_mentions_7d = 0

\* city 1 was scored while p1 had a mention and p2 none
C8_Witness ==
    /\ lastRun.valid /\ lastRun.committed /\ lastRun.city_id = 1
    /\ \E m \in lastRun.mentions0 : m.place_id = "p1"
    /\ \A m \in mentions : m.place_id # "p2"
    /\ \E r \in SnapshotsOfRun("p2") :
          r.hidden_gem_score = Hundred /\ r.local_mentions_7d = 0

\* C11: with local_mentions = 0, tourist_mentions > 0 and days_since_discovery >= 30,
\* calculate_gem_score returns exactly 0 for every sentiment.
C11_TouristOnlyIsZero ==
    (/\ GemCalled(lastCall)
     /\ lastCall.args.local_mentions = 0
     /\ lastCall.args.tourist_mentions > 0
     /\ lastCall.args.days_since_discovery >= 30)
    => (~lastCall.raised /\ lastCall.value = Int2Rat(0))

\* the call (0, 10, 0, 100) has returned 0
C11_Witness ==
    /\ GemCalled(lastCall)
    /\ lastCall.args = [local_mentions |-> 0, tourist_mentions |-> 10,
                        sentiment |-> Int2Rat(0), days_since_discovery |-> 100]
    /\ ~lastCall.raised
    /\ lastCall.value = Int2Rat(0)

\* clamp(x, lo, hi)
ClampR(x, lo, hi) == IF RLt(x, lo) THEN lo ELSE IF RLt(hi, x) THEN hi ELSE x

\* max(0, 30 - days) / 30 * 20
FreshnessAt(days) == IF days >= 30 THEN Int2Rat(0) ELSE Rat((30 - days) * 20, 30)

\* C12: calculate_gem_score(0, 0, s, d) does not raise for any sentiment s and days
\* d, and returns clamp(100 * clamp(s + 1, 0.5, 1.5) + freshness_bonus(d), 0, 100).
C12_NoMentionsNoDivisionError ==
    (/\ GemCalled(lastCall)
     /\ lastCall.args.local_mentions = 0
     /\ lastCall.args.tourist_mentions = 0)
    => /\ ~lastCall.raised
       /\ lastCall.value =
             ClampR(RAdd(RMul(Hundred,
                              ClampR(RAdd(lastCall.args.sentiment, Int2Rat(1)),
                                     Rat(1, 2), Rat(3, 2))),
                         FreshnessAt(lastCall.args.days_since_discovery)),
                    Int2Rat(0), Hundred)

\* the call (0, 0, -1/2, 15) has returned 100 * 0.5 + 10 = 60
C12_Witness ==
    /\ GemCalled(lastCall)
    /\ lastCall.args = [local_mentions |-> 0, tourist_mentions |-> 0,
                        sentiment |-> Rat(-1, 2), days_since_discovery |-> 15]
    /\ ~lastCall.raised
    /\ lastCall.value = Int2Rat(60)

\* C13 as stated: for every integer local_mentions and tourist_mentions (negative
\* values included, also local_mentions = -tourist_mentions) and every sentiment,
\* calculate_gem_score does not raise and returns a value in [0, 100].
C13_NeverRaisesInRange ==
    GemCalled(lastCall) => (~lastCall.raised /\ InRange(lastCall.value))

\* C14: calculate_authenticity_score does not raise on a place whose address is
\* null or empty and applies no landmark penalty to it: the score is that of the
\* same place with an address that does not contain the landmark substring,
\* clamp(100 - 20*[premium designation] + 20*[more than 10 local mentions in the
\* trailing 30 days], 0, 100).
C14_MissingAddressTolerated ==
    (AuthCalled /\ places[lastCall.args.place_id].address \in {NullStr, AddrEmpty}) =>
        LET p      == lastCall.args.place_id
            recent == LocalLast30(lastCall.args.mentions, p, lastCall.args.now)
        IN  /\ ~lastCall.raised
            /\ lastCall.value =
                  calculate_authenticity_score(p, [places[p] EXCEPT !.address = AddrPlain],
                                               lastCall.args.mentions, lastCall.args.now)
            /\ lastCall.value =
                  Int2Rat(Clamp100(100 - (IF places[p].michelin_stars > 0 THEN 20 ELSE 0)
                                       + (IF recent > 10 THEN 20 ELSE 0)))

\* a starred place with a null address has been scored 80
C14_Witness ==
    /\ AuthCalled
    /\ places[lastCall.args.place_id].address = NullStr
    /\ places[lastCall.args.place_id].michelin_stars > 0
    /\ ~lastCall.raised
    /\ lastCall.value = Int2Rat(80)

\* the mentions of place p in ms, local-authored or not, dated within the 7 days
\* before t
Last7(ms, p, is_local, t) ==
    Cardinality({m \in ms : /\ m.place_id = p
                            /\ m.is_local_author = is_local
                            /\ t - m.mention_date < Days(7)})

\* tourist_mentions / max(1, local_mentions + tourist_mentions) over the trailing 7 days
SaturationAt(ms, p, t) ==
    LET l == Last7(ms, p, TRUE, t)
        n == Last7(ms, p, FALSE, t)
    IN  Rat(n, IF l + n < 1 THEN 1 ELSE l + n)

\* the snapshots the last run found in the store / added to it
FoundByRun(r)    == \E r0 \in lastRun.snaps0 : r0.id = r.id
InsertedByRun(r) == r \in gem_scores /\ ~FoundByRun(r)

\* C15: a run that finds a snapshot for (place, today) overwrites only its
\* hidden_gem_score, authenticity_score and local_mentions_7d and leaves its
\* tourism_saturation, trending_score, score_date and place_id as they were; a
\* snapshot it inserts has tourism_saturation = tourist / max(1, local + tourist)
\* of the trailing-7-day counts taken during the run.
C15_UpsertFrame ==
    (lastRun.valid /\ lastRun.committed) =>
        /\ \A r0 \in lastRun.snaps0 :
               \E r \in gem_scores :
                  /\ r.id = r0.id
                  /\ r.place_id = r0.place_id
                  /\ r.score_date = r0.score_date
                  /\ r.trending_score = r0.trending_score
                  /\ r.tourism_saturation = r0.tourism_saturation
                  /\ r # r0 => /\ r.place_id \in DOMAIN lastRun.computed
                               /\ SameValues(r, lastRun.computed[r.place_id])
        /\ \A r \in gem_scores :
               InsertedByRun(r) =>
                  \E t \in lastRun.t0..clock, ms \in SUBSET mentions :
                     /\ lastRun.mentions0 \subseteq ms
                     /\ r.tourism_saturation = SaturationAt(ms, r.place_id, t)
                     /\ r.local_mentions_7d = Last7(ms, r.place_id, TRUE, t)

\* a second run of city 1 overwrote the score of p1's snapshot of the day after a
\* tourist mention came in, and the snapshot kept the saturation 0 of its insertion
C15_Witness ==
    /\ lastRun.valid /\ lastRun.committed /\ lastRun.city_id = 1
    /\ \E r0 \in lastRun.snaps0, r \in gem_scores :
          /\ r.id = r0.id /\ r.place_id = "p1"
          /\ r.hidden_gem_score # r0.hidden_gem_score
          /\ r.tourism_saturation = Int2Rat(0)
          /\ SaturationAt(mentions, "p1", lastRun.t0) = Int2Rat(1)

CarriesCount(outcome, n) ==
    \E k \in DOMAIN outcome \ {"status", "city_id"} : outcome[k] = n

\* C17 as stated: on success the caller of update_all_scores(city) is returned an
\* outcome carrying the count of places processed, the number of places of the
\* city (be it the value of update_all_scores itself or the task's dict); on
\* failure a structured failure.
C17_SuccessCarriesCount ==
    lastRun.valid =>
        LET n == Cardinality(CityPlaces(lastRun.city_id))
        IN  /\ lastRun.committed =>
                  \/ CarriesCount(update_all_scores_return(list_places(lastRun.city_id)), n)
                  \/ CarriesCount(result[lastRun.batch], n)
            /\ lastRun.raised => result[lastRun.batch].status = "error"

\* two snapshots of one place dated on one calendar day
DuplicateSnapshot ==
    \E r1 \in gem_scores, r2 \in gem_scores :
        /\ r1 # r2
        /\ r1.place_id = r2.place_id
        /\ Day(r1.score_date) = Day(r2.score_date)

\* C20: the scorer does not serialize batches.  A second snapshot for one
\* (place, day) comes into the store only at the commit of a batch during whose
\* flight another batch has committed snapshots of the same city: with at most one
\* batch in flight per city no such state is reached, with two interleaved batches
\* of one city it is.
C20_DuplicateOnlyByOverlap ==
    [][(~DuplicateSnapshot /\ DuplicateSnapshot') =>
          \E b \in Batches :
              /\ InFlight(b)
              /\ session'[b] = IdleSession
              /\ \E r \in gem_scores \ session[b].snaps0 :
                    places[r.place_id].city_id = session[b].city_id
              /\ \E r \in gem_scores' \ gem_scores :
                    places[r.place_id].city_id = session[b].city_id]_vars

\* two batches of city 1 interleaved on one day and both inserted a snapshot of p1
C20_Witness ==
    /\ DuplicateSnapshot
    /\ lastRun.valid /\ lastRun.committed /\ lastRun.city_id = 1
    /\ lastRun.snaps0 = {}
    /\ \E r1 \in gem_scores, r2 \in gem_scores :
          /\ r1 # r2
          /\ r1.place_id = "p1" /\ r2.place_id = "p1"
          /\ Day(r1.score_date) = Day(r2.score_date)

ExtractCalled == lastCall.fn = ExtractFn /\ lastCall.done

\* C18 as stated: the names _extract_places returns for one text contain no two
\* names that are equal ignoring case.
C18_NoDuplicateIgnoringCase ==
    ExtractCalled =>
        \A a \in lastCall.value, b \in lastCall.value : lower(a) = lower(b) => a = b

\* C19: no name _extract_places returns is shorter than 3 characters after
\* trimming (the names are returned trimmed), and none is a stopword when
\* lower-cased.
C19_NoShortNoStopword ==
    ExtractCalled =>
        \A a \in lastCall.value :
            /\ Len(a) >= 3
            /\ a[1] \notin Whitespace /\ a[Len(a)] \notin Whitespace
            /\ \A w \in stopwords : lower(a) # w

\* of "recommande LES?visiter Le Zinc." the one name "Le Zinc" is returned: "LES"
\* was matched and is a stopword
C19_Witness ==
    /\ ExtractCalled
    /\ lastCall.args.text = Phrase.StopwordUpper \o Phrase.VisiterUpper
    /\ findall(1, lastCall.args.text, 1) = <<<<"L", "E", "S">>,
                                             <<"L", "e", " ", "Z", "i", "n", "c">>>>
    /\ lastCall.value = {<<"L", "e", " ", "Z", "i", "n", "c">>}

\* two calls in a row that returned and differ in at most one argument
SameButDays ==
    /\ GemCalled(prevCall) /\ GemCalled(lastCall)
    /\ prevCall.args.local_mentions = lastCall.args.local_mentions
    /\ prevCall.args.tourist_mentions = lastCall.args.tourist_mentions
    /\ prevCall.args.sentiment = lastCall.args.sentiment

SameButTourist ==
    /\ GemCalled(prevCall) /\ GemCalled(lastCall)
    /\ prevCall.args.local_mentions = lastCall.args.local_mentions
    /\ prevCall.args.sentiment = lastCall.args.sentiment
    /\ prevCall.args.days_since_discovery = lastCall.args.days_since_discovery

SameButLocal ==
    /\ GemCalled(prevCall) /\ GemCalled(lastCall)
    /\ prevCall.args.tourist_mentions = lastCall.args.tourist_mentions
    /\ prevCall.args.sentiment = lastCall.args.sentiment
    /\ prevCall.args.days_since_discovery = lastCall.args.days_since_discovery

\* C21: the freshness bonus is 20 at day 0, 0 from day 30 on and non-increasing in
\* days_since_discovery, and so is calculate_gem_score for fixed counts and
\* sentiment.
C21_NonIncreasingInDays ==
    /\ GemCalled(lastCall) =>
          LET d == lastCall.args.days_since_discovery
          IN  /\ d = 0 => freshness_bonus(d) = Int2Rat(20)
              /\ d >= 30 => freshness_bonus(d) = Int2Rat(0)
    /\ (SameButDays /\ prevCall.args.days_since_discovery
                          <= lastCall.args.days_since_discovery) =>
          /\ RLe(freshness_bonus(lastCall.args.days_since_discovery),
                 freshness_bonus(prevCall.args.days_since_discovery))
          /\ ~prevCall.raised /\ ~lastCall.raised
          /\ RLe(lastCall.value, prevCall.value)

\* (10, 10, 0, d) was scored 60 at day 15 and then 50 at day 30
C21_Witness ==
    /\ SameButDays
    /\ prevCall.args = [local_mentions |-> 10, tourist_mentions |-> 10,
                        sentiment |-> Int2Rat(0), days_since_discovery |-> 15]
    /\ lastCall.args.days_since_discovery = 30
    /\ prevCall.value = Int2Rat(60)
    /\ lastCall.value = Int2Rat(50)

\* C22: the sentiment multiplier is clamp(sentiment + 1, 0.5, 1.5) for every
\* sentiment, never below 0.5 and never above 1.5; a place with a local mention
\* and non-negative counts never scores 0, however negative the sentiment.
C22_MultiplierClamped ==
    GemCalled(lastCall) =>
        LET s == lastCall.args.sentiment
            m == sentiment_multiplier(s)
        IN  /\ m = ClampR(RAdd(s, Int2Rat(1)), Rat(1, 2), Rat(3, 2))
            /\ RLe(Rat(1, 2), m) /\ RLe(m, Rat(3, 2))
            /\ (lastCall.args.local_mentions > 0 /\ lastCall.args.tourist_mentions >= 0)
                  => (~lastCall.raised /\ RLt(Int2Rat(0), lastCall.value))
            /\ (/\ lastCall.args.local_mentions > 0
                /\ lastCall.args.tourist_mentions = 0
                /\ lastCall.args.days_since_discovery >= 30)
                  => lastCall.value = RMin(Hundred, RMul(Hundred, m))

\* (10, 0, -3, 100) was scored 100 * 0.5 = 50
C22_Witness ==
    /\ GemCalled(lastCall)
    /\ lastCall.args = [local_mentions |-> 10, tourist_mentions |-> 0,
                        sentiment |-> Rat(-3, 1), days_since_discovery |-> 100]
    /\ lastCall.value = Int2Rat(50)

\* C28: for fixed local_mentions >= 0, sentiment and days_since_discovery,
\* calculate_gem_score is non-increasing in tourist_mentions >= 0; for fixed
\* tourist_mentions > 0 it is non-decreasing in local_mentions >= 0.
C28_MonotoneInCounts ==
    /\ (/\ SameButTourist
        /\ lastCall.args.local_mentions >= 0
        /\ 0 <= prevCall.args.tourist_mentions
        /\ prevCall.args.tourist_mentions <= lastCall.args.tourist_mentions) =>
          (~prevCall.raised /\ ~lastCall.raised /\ RLe(lastCall.value, prevCall.value))
    /\ (/\ SameButLocal
        /\ lastCall.args.tourist_mentions > 0
        /\ 0 <= prevCall.args.local_mentions
        /\ prevCall.args.local_mentions <= lastCall.args.local_mentions) =>
          (~prevCall.raised /\ ~lastCall.raised /\ RLe(prevCall.value, lastCall.value))

\* (1, 10, 0, 30) was scored 100/11 and then (10, 10, 0, 30) was scored 50
C28_Witness ==
    /\ SameButLocal
    /\ prevCall.args = [local_mentions |-> 1, tourist_mentions |-> 10,
                        sentiment |-> Int2Rat(0), days_since_discovery |-> 30]
    /\ lastCall.args.local_mentions = 10
    /\ prevCall.value = Rat(100, 11)
    /\ lastCall.value = Int2Rat(50)

\* C23: every snapshot update_all_scores inserted has tourism_saturation in
\* [0, 1], and a snapshot inserted by a run for a place that had no mention in the
\* trailing 7 days of the run has tourism_saturation 0.
C23_SaturationInUnitRange ==
    /\ \A r \in gem_scores :
          /\ RLe(Int2Rat(0), r.tourism_saturation)
          /\ RLe(r.tourism_saturation, Int2Rat(1))
    /\ (lastRun.valid /\ lastRun.committed) =>
          \A r \in gem_scores :
             (/\ InsertedByRun(r)
              /\ \A m \in mentions :
                    m.place_id = r.place_id => lastRun.t0 - m.mention_date >= Days(7))
                => r.tourism_saturation = Int2Rat(0)

\* a run inserted p1's snapshot when p1's one tourist mention was exactly 7 days
\* old: the saturation is 0
C23_Witness ==
    /\ lastRun.valid /\ lastRun.committed
    /\ \E r \in gem_scores, m \in mentions :
          /\ InsertedByRun(r) /\ r.place_id = "p1"
          /\ m.place_id = "p1" /\ ~m.is_local_author
          /\ lastRun.t0 - m.mention_date = Days(7)
          /\ \A m2 \in mentions : m2.place_id = "p1" => m2 = m
          /\ r.tourism_saturation = Int2Rat(0)

\* the city of the place a snapshot belongs to
CityOf(r) == places[r.place_id].city_id

\* a step of the task: a session, a return value, the snapshots or the history of
\* runs changes
TaskStep ==
    \/ session' # session \/ result' # result \/ gem_scores' # gem_scores
    \/ lastRun' # lastRun \/ runs' # runs

\* C24: no step of update_all_scores creates, changes or deletes a Place or a
\* Mention; after a run for a city every snapshot of another city's place and
\* every snapshot of an earlier day is as it was when the run started, and every
\* snapshot created or changed belongs to a place of the run's city.
C24_FrameOfRun ==
    /\ [](lastRun.valid =>
            /\ \A r0 \in lastRun.snaps0 :
                  (CityOf(r0) # lastRun.city_id \/ Day(r0.score_date) < Day(lastRun.t0))
                     => r0 \in gem_scores
            /\ \A r0 \in lastRun.snaps0 : \E r \in gem_scores : r.id = r0.id
            /\ \A r \in gem_scores :
                  r \notin lastRun.snaps0 => CityOf(r) = lastRun.city_id)
    /\ [][TaskStep => UNCHANGED <<places, mentions>>]_vars

\* city 1 was scored on two days: p1's snapshot of the first day is as the first
\* run left it, beside a new one of the second day with another score
C24_Witness ==
    /\ lastRun.valid /\ lastRun.committed /\ lastRun.city_id = 1
    /\ mentions # {}
    /\ \E r0 \in lastRun.snaps0, r \in gem_scores :
          /\ r0.place_id = "p1" /\ r.place_id = "p1"
          /\ Day(r0.score_date) < Day(lastRun.t0)
          /\ r0 \in gem_scores
          /\ InsertedByRun(r)
          /\ r.hidden_gem_score # r0.hidden_gem_score

\* the average sentiment_score of all the mentions of a place, of any age, 0
\* when there is none
AllTimeAverage(ms, p) ==
    LET rows == {m \in ms : m.place_id = p}
    IN  IF rows = {} THEN Int2Rat(0)
        ELSE RDiv(SumSentiment(rows), Int2Rat(Cardinality(rows)))

\* C25: the counts a run takes for a place are those of its mentions dated strictly
\* later than now minus 7 days, a mention exactly 7 days old not counted; the
\* sentiment fed to the score is the average over all the mentions of the place
\* whatever their age, 0 when it has none.
C25_WindowAndAverage ==
    (lastRun.valid /\ lastRun.committed) =>
        \A p \in CityPlaces(lastRun.city_id) :
            /\ p \in DOMAIN lastRun.computed
            /\ \E t \in lastRun.t0..clock :
                  LET l == Last7(mentions, p, TRUE, t)
                      n == Last7(mentions, p, FALSE, t)
                  IN  /\ lastRun.computed[p].local_mentions_7d = l
                      /\ lastRun.computed[p].tourism_saturation
                            = Rat(n, IF l + n < 1 THEN 1 ELSE l + n)
                      /\ lastRun.computed[p].hidden_gem_score
                            = calculate_gem_score(l, n, AllTimeAverage(mentions, p),
                                                  DefaultDaysSinceDiscovery).value

\* p1 has a local mention inside the window (sentiment 1/2) and a tourist mention
\* exactly 7 days old (sentiment -1): the counts are 1 and 0, the average -1/4,
\* the score 100 * 3/4 = 75
C25_Witness ==
    /\ lastRun.valid /\ lastRun.committed /\ lastRun.city_id = 1
    /\ {m.id : m \in mentions} = {1, 2}
    /\ \E m \in mentions : lastRun.t0 - m.mention_date = Days(7)
    /\ lastRun.computed["p1"].local_mentions_7d = 1
    /\ lastRun.computed["p1"].tourism_saturation = Int2Rat(0)
    /\ lastRun.computed["p1"].hidden_gem_score = Int2Rat(75)

\* C27: every hidden_gem_score a run writes is
\* clamp((1 - tourist_ratio) * 100 * clamp(avg_sentiment + 1, 0.5, 1.5), 0, 100)
\* of the counts and the average the run took, without any freshness bonus, also
\* for a place whose first mention is less than 30 days old.
C27_NoFreshnessInStoredScore ==
    (lastRun.valid /\ lastRun.committed) =>
        \A p \in CityPlaces(lastRun.city_id) :
            \E r \in gem_scores :
               /\ r.place_id = p
               /\ r.hidden_gem_score = lastRun.computed[p].hidden_gem_score
               /\ \E t \in lastRun.t0..clock :
                     LET l == Last7(mentions, p, TRUE, t)
                         n == Last7(mentions, p, FALSE, t)
                         m == ClampR(RAdd(AllTimeAverage(mentions, p), Int2Rat(1)),
                                     Rat(1, 2), Rat(3, 2))
                         tourist_ratio == IF n = 0 THEN Int2Rat(0) ELSE Rat(n, l + n)
                     IN  r.hidden_gem_score =
                            ClampR(RMul(RMul(RSub(Int2Rat(1), tourist_ratio), Hundred), m),
                                   Int2Rat(0), Hundred)

\* p1's only mentions are less than 7 days old, a local and a tourist one: the
\* snapshot holds 50 * 3/4 = 37.5, not 37.5 plus a bonus
C27_Witness ==
    /\ lastRun.valid /\ lastRun.committed /\ lastRun.city_id = 1
    /\ {m.id : m \in mentions} = {1, 3}
    /\ \A m \in mentions : Day(lastRun.t0 - m.mention_date) < 30
    /\ \E r \in gem_scores :
          /\ r.place_id = "p1"
          /\ r.hidden_gem_score = Rat(75, 2)

\* the text of the submission a mention record was made from
SelftextOf(record) == lastCall.args.listing[record.source_url].selftext

\* C26: all the records scrape_subreddit makes from one submission carry the same
\* is_local, which is that of the whole text of the submission: TRUE exactly when
\* the lower-cased text contains one of the five indicators, whichever name was
\* extracted.
C26_OneClassificationPerSubmission ==
    lastCall.fn = "scrape_subreddit" =>
        /\ \A a \in lastCall.value, b \in lastCall.value :
               a.source_url = b.source_url => a.is_local = b.is_local
        /\ \A a \in lastCall.value :
               a.is_local = (\E w \in local_indicators : Contains(lower(SelftextOf(a)), w))

\* "visiter Le Zinc.visiter Bar Local." gave the records of "Le Zinc", of
\* "Bar Local" and of "Local", all three local, though the name "Le Zinc"
\* holds no indicator
C26_Witness ==
    /\ lastCall.fn = "scrape_subreddit" /\ lastCall.done
    /\ lastCall.args.listing =
          <<[permalink |-> 1, selftext |-> Phrase.VisiterUpper \o Phrase.BarLocal]>>
    /\ {r.place_name : r \in lastCall.value} =
          {<<"L", "e", " ", "Z", "i", "n", "c">>,
           <<"B", "a", "r", " ", "L", "o", "c", "a", "l">>,
           <<"L", "o", "c", "a", "l">>}
    /\ \A r \in lastCall.value : r.is_local

\* C29 as stated: in one call of a function wrapped by cache_key_wrapper the
\* wrapped function runs at most once: not at all when it returns from a cache
\* hit, once otherwise, whether Redis is unavailable, the read or the write of
\* the cache fails, or the function raises.
C29_WrappedRunsAtMostOnce ==
    lastCall.fn = "wrapper" =>
        /\ lastCall.executions <= 1
        /\ lastCall.done => lastCall.executions = (IF lastCall.hit THEN 0 ELSE 1)

====
